---- MODULE Spec2Model ----
(***************************************************************************)
(* ConvexSyncManager ("backfill + tail" synchronisation between a Convex   *)
(* backend and a TanStack DB collection) as a state machine.               *)
(*                                                                         *)
(* The manager's fields are the variables; every public operation, timer   *)
(* callback, query continuation and subscription callback is one action.   *)
(* JavaScript runs each of them to completion (or to its first await), so  *)
(* an action is atomic and the interleavings are those of the event loop.  *)
(***************************************************************************)
EXTENDS Integers, Sequences, FiniteSets, TLC

VARIABLES
    \* ---- configuration (fixed at construction)
    filterDimensions,           \* sequence of [convexArg, single]
    tailOverlapMs,
    resubscribeThreshold,
    \* ---- ConvexSyncManager fields
    activeDimensions,           \* convexArg -> insertion-ordered set of keys
    refCounts,                  \* composite key -> count (present entries only)
    pendingFilters,             \* convexArg -> list of values (present entries only)
    globalCursor,
    currentSubscription,        \* <<>> (null) or <<args>> (the unsubscribe handle)
    debounceTimer,              \* 0 (null) or the handle of the last timer set
    isProcessing,
    markedReady,
    hasRequestedGlobal,
    globalRefCount,
    messagesSinceSubscription,
    callbacks,                  \* FALSE: null, TRUE: set by setCallbacks
    \* ---- the runtime and the collaborators
    timerArmed,                 \* the timer debounceTimer names has not fired yet
    promises,                   \* one per returned promise: [status, filters]; status
                                \* "cancelled" is pending, its timer cleared by cleanup()
    inflight,                   \* the awaited backfill queries: [owner, args, covers,
                                \* stale]; stale: cleanup() ran while it was awaited
    liveSubs,                   \* subscriptions installed on the client, not unsubscribed
    collection,                 \* the host collection: key -> record (present keys only)
    hostReadsOwnWrites,         \* whether collection.get sees writes of the open batch
    \* ---- history
    backfilled,                 \* <<convexArg, key>> covered by a backfill that succeeded
    deliveries,                 \* the batches delivered since Init (delivery scenarios)
    readySignals,               \* markReady() calls since the session's setCallbacks
    forcedResubscribes,         \* subscriptions rebuilt by handleIncomingData since then
    tornDown,                   \* a subscription of the session has been unsubscribed
    codec,                      \* the codec scenario: [value, other, keys, restored]
    extraction,                 \* the extraction scenario: [where, values, extracted]
    collection0                 \* the collection at Init

vars == << filterDimensions, tailOverlapMs, resubscribeThreshold,
           activeDimensions, refCounts, pendingFilters, globalCursor,
           currentSubscription, debounceTimer, isProcessing, markedReady,
           hasRequestedGlobal, globalRefCount, messagesSinceSubscription,
           callbacks, timerArmed, promises, inflight, liveSubs, collection,
           hostReadsOwnWrites, backfilled, deliveries, readySignals,
           forcedResubscribes, tornDown, codec, extraction, collection0 >>

configVars == << filterDimensions, tailOverlapMs, resubscribeThreshold,
                 hostReadsOwnWrites, collection0 >>

(***************************************************************************)
(* Bounds                                                                  *)
(***************************************************************************)
\* timestamps are 1..MaxTs
MaxTs == 2
\* promises handed out by requestFilters (calls that return)
MaxCalls == 2
\* total of the reference counts (calls that throw still count a reference)
MaxRefs == 2
\* the configured overlap window and resubscribe threshold (scaled to MaxTs)
OverlapMs == 1
Threshold == 2

\* markReady() calls are counted up to MaxSignals
MaxSignals == 2
\* subscriptions rebuilt by handleIncomingData are counted up to MaxForced
MaxForced == 2

\* an absent updatedAt field (undefined)
NoTs == -1

Keys == {"k1", "k2"}
Bodies == {"x", "y"}
Timestamps == 1..MaxTs

Max(a, b) == IF a > b THEN a ELSE b

None == <<>>
Some(x) == <<x>>

RECURSIVE SeqToSet(_)
SeqToSet(s) == IF s = <<>> THEN {} ELSE {Head(s)} \cup SeqToSet(Tail(s))

Contains(s, x) == \E i \in 1..Len(s) : s[i] = x

RECURSIVE Without(_, _)
Without(s, x) ==
    IF s = <<>> THEN <<>>
    ELSE IF Head(s) = x THEN Without(Tail(s), x)
         ELSE <<Head(s)>> \o Without(Tail(s), x)

\* the first occurrence of x removed from s
RECURSIVE RemoveOne(_, _)
RemoveOne(s, x) ==
    IF s = <<>> THEN <<>>
    ELSE IF Head(s) = x THEN Tail(s)
         ELSE <<Head(s)>> \o RemoveOne(Tail(s), x)

Put(f, k, v) == [x \in DOMAIN f \cup {k} |-> IF x = k THEN v ELSE f[x]]

Drop(f, k) == [x \in DOMAIN f \ {k} |-> f[x]]

(***************************************************************************)
(* JavaScript values.  A value is a tuple whose first element names its    *)
(* type: <<"undefined">>, <<"null">>, <<"nan">>, <<"infinity", sign>>,     *)
(* <<"number", n>>, <<"string", s>>, <<"boolean", b>>, <<"date", t>> (t    *)
(* the ISO text, or "invalid"), <<"array", items>> and <<"object",         *)
(* entries>>, the entries being <<key, value>> pairs in insertion order.   *)
(***************************************************************************)
Undefined == <<"undefined">>
Null == <<"null">>
NaN == <<"nan">>
Infinity(sign) == <<"infinity", sign>>
Num(n) == <<"number", n>>
Str(s) == <<"string", s>>
Bool(b) == <<"boolean", b>>
Date(t) == <<"date", t>>
Arr(items) == <<"array", items>>
Obj(entries) == <<"object", entries>>

TypeOf(value) == value[1]

KeysOf(entries) == { entries[i][1] : i \in 1..Len(entries) }

\* object[key]: undefined when the key is absent
Lookup(entries, key) ==
    IF key \in KeysOf(entries)
    THEN entries[CHOOSE i \in 1..Len(entries) : entries[i][1] = key][2]
    ELSE Undefined

\* Date.prototype.toJSON: the ISO text, null for an invalid date
toJSON(date) == IF date[2] = "invalid" THEN Null ELSE Str(date[2])

\* the texts new Date(text) accepts
IsoTexts == {"2020"}

\* new Date(arg) for what a parsed key can carry: a text, null (the epoch),
\* or nothing
NewDate(arg) ==
    CASE TypeOf(arg) = "string" ->
             IF arg[2] \in IsoTexts THEN Date(arg[2]) ELSE Date("invalid")
      [] TypeOf(arg) = "null" -> Date("1970")
      [] TypeOf(arg) = "undefined" -> Date("invalid")

isTypeMarker(value) ==
    /\ TypeOf(value) = "object"
    /\ "__type" \in KeysOf(value[2])
    /\ TypeOf(Lookup(value[2], "__type")) = "string"

RECURSIVE serializeValue(_)
serializeValue(value) ==
    CASE TypeOf(value) = "undefined" ->
             Obj(<< <<"__type", Str("undefined")>> >>)
      [] TypeOf(value) = "nan" ->
             Obj(<< <<"__type", Str("nan")>> >>)
      [] TypeOf(value) = "infinity" ->
             Obj(<< <<"__type", Str("infinity")>>, <<"sign", Num(value[2])>> >>)
      [] TypeOf(value) \in {"null", "string", "number", "boolean"} -> value
      [] TypeOf(value) = "date" ->
             Obj(<< <<"__type", Str("date")>>, <<"value", toJSON(value)>> >>)
      [] TypeOf(value) = "array" ->
             Arr([i \in 1..Len(value[2]) |-> serializeValue(value[2][i])])
      [] TypeOf(value) = "object" ->
             Obj([i \in 1..Len(value[2]) |->
                     <<value[2][i][1], serializeValue(value[2][i][2])>>])

RECURSIVE deserializeValue(_)
deserializeValue(value) ==
    IF isTypeMarker(value)
    THEN LET type == Lookup(value[2], "__type")[2]
         IN  CASE type = "undefined" -> Undefined
               [] type = "nan" -> NaN
               [] type = "infinity" ->
                      IF Lookup(value[2], "sign") = Num(1)
                      THEN Infinity(1) ELSE Infinity(-1)
               [] type = "date" -> NewDate(Lookup(value[2], "value"))
               [] OTHER -> value
    ELSE CASE TypeOf(value) \in {"null", "string", "number", "boolean"} -> value
           [] TypeOf(value) = "array" ->
                  Arr([i \in 1..Len(value[2]) |-> deserializeValue(value[2][i])])
           [] TypeOf(value) = "object" ->
                  Obj([i \in 1..Len(value[2]) |->
                          <<value[2][i][1], deserializeValue(value[2][i][2])>>])

\* JSON.stringify of a JSON-safe value: the text spells the value out, object
\* entries in insertion order; JSON.parse reads it back
JSONstringify(value) == <<"json", value>>

JSONparse(text) == text[2]

toKey(value) == JSONstringify(serializeValue(value))

fromKey(key) == deserializeValue(JSONparse(key))

RECURSIVE MapToKey(_)
MapToKey(values) ==
    IF values = <<>> THEN <<>>
    ELSE <<toKey(Head(values))>> \o MapToKey(Tail(values))

RECURSIVE MapFromKey(_)
MapFromKey(keys) ==
    IF keys = <<>> THEN <<>>
    ELSE <<fromKey(Head(keys))>> \o MapFromKey(Tail(keys))

\* the string order of two keys; the manager's filter values are one-digit
\* numbers, whose JSON texts are ordered as the numbers
KeyLeq(j, k) == JSONparse(j)[2] <= JSONparse(k)[2]

\* Array.prototype.sort on keys
RECURSIVE InsertSorted(_, _)
InsertSorted(k, s) ==
    IF s = <<>> THEN <<k>>
    ELSE IF KeyLeq(k, Head(s)) THEN <<k>> \o s
         ELSE <<Head(s)>> \o InsertSorted(k, Tail(s))

RECURSIVE SortKeys(_)
SortKeys(s) == IF s = <<>> THEN <<>> ELSE InsertSorted(Head(s), SortKeys(Tail(s)))

(***************************************************************************)
(* The host collection (TanStack DB): get by key, and a write batch that   *)
(* is applied on commit.                                                   *)
(***************************************************************************)
getKey(item) == item.key

RECURSIVE ApplyWrites(_, _)
ApplyWrites(coll, writes) ==
    IF writes = <<>> THEN coll
    ELSE ApplyWrites(Put(coll, getKey(Head(writes).value), Head(writes).value),
                     Tail(writes))

\* collection.get(key) while a batch with `writes` is open: <<>> or <<record>>
HostGet(coll, writes, key) ==
    LET seen == IF hostReadsOwnWrites THEN ApplyWrites(coll, writes) ELSE coll
    IN  IF key \in DOMAIN seen THEN <<seen[key]>> ELSE <<>>

HostCommit(coll, writes) == ApplyWrites(coll, writes)

(***************************************************************************)
(* Subscription rebuild.  The data the handlers below pass along is the    *)
(* record d == [collection, globalCursor, messagesSinceSubscription,       *)
(* currentSubscription, liveSubs, forcedResubscribes, tornDown].           *)
(***************************************************************************)
DimArgs == {filterDimensions[i].convexArg : i \in 1..Len(filterDimensions)}

DimOf(convexArg) ==
    filterDimensions[CHOOSE i \in 1..Len(filterDimensions) :
                        filterDimensions[i].convexArg = convexArg]

IsSingle(convexArg) == DimOf(convexArg).single

Data == [collection |-> collection,
         globalCursor |-> globalCursor,
         messagesSinceSubscription |-> messagesSinceSubscription,
         currentSubscription |-> currentSubscription,
         liveSubs |-> liveSubs,
         forcedResubscribes |-> forcedResubscribes,
         tornDown |-> tornDown]

\* buildQueryArgs: a single dimension passes values[0], the others the array
BuildQueryArgs(after, active) ==
    [after |-> after,
     filters |-> [a \in DOMAIN active |->
        IF IsSingle(a)
        THEN [array |-> FALSE,
              values |-> IF active[a] = <<>> THEN <<>>
                         ELSE <<fromKey(active[a][1])>>]
        ELSE [array |-> TRUE, values |-> MapFromKey(active[a])]]]

HasActiveValues(active) == \E a \in DOMAIN active : active[a] # <<>>

\* variant: without dimensions the subscription is kept whatever was requested
ShouldSubscribeAlways(active, requestedGlobal) ==
    IF Len(filterDimensions) = 0 THEN TRUE ELSE HasActiveValues(active)

\* variant: with dimensions configured the subscription is always installed
ShouldSubscribeConfigured(active, requestedGlobal) ==
    IF Len(filterDimensions) = 0 THEN requestedGlobal ELSE TRUE

ShouldSubscribe(active, requestedGlobal) ==
    IF Len(filterDimensions) = 0 THEN requestedGlobal
    ELSE HasActiveValues(active)

\* variant: the overlap subtracted without the clamp at zero
SubscriptionCursorUnclamped(cursor) == cursor - tailOverlapMs

SubscriptionCursor(cursor) == Max(0, cursor - tailOverlapMs)

\* variant: the handle dropped without its unsubscribe being invoked
UnsubscribeForgets(d) == [d EXCEPT !.currentSubscription = None]

\* variant: the current subscription is left as it is
UnsubscribeNever(d) == d

\* the unsubscribe of the current handle, and the handle dropped
Unsubscribe(d) ==
    IF d.currentSubscription # None
    THEN [d EXCEPT !.liveSubs = RemoveOne(@, d.currentSubscription[1]),
                   !.currentSubscription = None,
                   !.tornDown = TRUE]
    ELSE d

UpdateSubscription(d, active, requestedGlobal) ==
    LET u == [Unsubscribe(d) EXCEPT !.messagesSinceSubscription = 0]
    IN  IF ~ShouldSubscribe(active, requestedGlobal) THEN u
        ELSE LET args == BuildQueryArgs(SubscriptionCursor(u.globalCursor), active)
             IN  [u EXCEPT !.liveSubs = Append(@, args),
                           !.currentSubscription = Some(args)]

(***************************************************************************)
(* Reconciliation (last write wins)                                        *)
(***************************************************************************)
\* variants of the two comparisons below, against which the properties are
\* tested for sensitivity: a cursor that follows the last timestamp seen, and
\* a freshness test that prefers the older version
AdvanceCursorUnguarded(cursor, incomingTs) ==
    IF incomingTs # NoTs THEN incomingTs ELSE cursor

IsFresherReversed(incomingTs, existingTs) == incomingTs < existingTs

\* variant: a version as old as the existing one is written too
IsFresherOrEqual(incomingTs, existingTs) == incomingTs >= existingTs

AdvanceCursor(cursor, incomingTs) ==
    IF incomingTs # NoTs /\ incomingTs > cursor THEN incomingTs ELSE cursor

IsFresher(incomingTs, existingTs) == incomingTs > existingTs

\* variant: a record at the previous cursor counts as new
BeyondPreviousCursorInclusive(incomingTs, previousCursor) ==
    incomingTs # NoTs /\ incomingTs >= previousCursor

BeyondPreviousCursor(incomingTs, previousCursor) ==
    incomingTs # NoTs /\ incomingTs > previousCursor

\* one iteration of the loop over items; r == [cursor, writes, newItemCount]
ReconcileItem(r, item, coll, previousCursor) ==
    LET incomingTs == item.ts
        cur == AdvanceCursor(r.cursor, incomingTs)
        existing == HostGet(coll, r.writes, getKey(item))
        counted == IF BeyondPreviousCursor(incomingTs, previousCursor)
                   THEN r.newItemCount + 1 ELSE r.newItemCount
    IN  IF existing = <<>>
        THEN [cursor |-> cur,
              writes |-> Append(r.writes, [type |-> "insert", value |-> item]),
              newItemCount |-> counted]
        ELSE LET existingTs == existing[1].ts
             IN  IF incomingTs # NoTs /\ existingTs # NoTs
                 THEN IF IsFresher(incomingTs, existingTs)
                      THEN [cursor |-> cur,
                            writes |-> Append(r.writes,
                                              [type |-> "update", value |-> item]),
                            newItemCount |-> counted]
                      ELSE [r EXCEPT !.cursor = cur]
                 ELSE IF incomingTs # NoTs
                      THEN [cursor |-> cur,
                            writes |-> Append(r.writes,
                                              [type |-> "update", value |-> item]),
                            newItemCount |-> r.newItemCount]
                      ELSE [r EXCEPT !.cursor = cur]

RECURSIVE ReconcileItems(_, _, _, _)
ReconcileItems(r, items, coll, previousCursor) ==
    IF items = <<>> THEN r
    ELSE ReconcileItems(ReconcileItem(r, Head(items), coll, previousCursor),
                        Tail(items), coll, previousCursor)

\* variant: the subscription is rebuilt once the counter has passed the threshold
NeedsResubscribeLate(d) ==
    /\ resubscribeThreshold > 0
    /\ d.messagesSinceSubscription > resubscribeThreshold
    /\ d.currentSubscription # None

NeedsResubscribe(d) ==
    /\ resubscribeThreshold > 0
    /\ d.messagesSinceSubscription >= resubscribeThreshold
    /\ d.currentSubscription # None

HandleIncomingData(d, items, active, requestedGlobal) ==
    IF ~callbacks \/ Len(items) = 0 THEN d
    ELSE LET r == ReconcileItems([cursor |-> d.globalCursor, writes |-> <<>>,
                                  newItemCount |-> 0],
                                 items, d.collection, d.globalCursor)
             d1 == [d EXCEPT !.collection = HostCommit(@, r.writes),
                             !.globalCursor = r.cursor,
                             !.messagesSinceSubscription = @ + r.newItemCount]
         IN  IF NeedsResubscribe(d1)
             THEN UpdateSubscription(
                      [d1 EXCEPT !.forcedResubscribes =
                                     IF @ < MaxForced THEN @ + 1 ELSE @],
                      active, requestedGlobal)
             ELSE d1

SetData(d) ==
    /\ collection' = d.collection
    /\ globalCursor' = d.globalCursor
    /\ messagesSinceSubscription' = d.messagesSinceSubscription
    /\ currentSubscription' = d.currentSubscription
    /\ liveSubs' = d.liveSubs
    /\ forcedResubscribes' = d.forcedResubscribes
    /\ tornDown' = d.tornDown

(***************************************************************************)
(* Filter reference tracker                                                *)
(***************************************************************************)
\* Object.keys(filters).sort(): "a" < "b"
ArgRank(convexArg) == IF convexArg = "a" THEN 1 ELSE 2

RECURSIVE InsertEntry(_, _)
InsertEntry(e, s) ==
    IF s = <<>> THEN <<e>>
    ELSE IF ArgRank(e.arg) <= ArgRank(Head(s).arg) THEN <<e>> \o s
         ELSE <<Head(s)>> \o InsertEntry(e, Tail(s))

\* variant: the serialized values kept in the order given
CreateCompositeKeyUnsorted(filters) ==
    [i \in 1..Len(filters) |->
        [arg |-> filters[i].arg, values |-> MapToKey(filters[i].values)]]

\* the composite key: dimensions sorted, each with its serialized values sorted
RECURSIVE CreateCompositeKey(_)
CreateCompositeKey(filters) ==
    IF filters = <<>> THEN <<>>
    ELSE InsertEntry([arg |-> Head(filters).arg,
                      values |-> SortKeys(MapToKey(Head(filters).values))],
                     CreateCompositeKey(Tail(filters)))

RefCountOf(counts, compositeKey) ==
    IF compositeKey \in DOMAIN counts THEN counts[compositeKey] ELSE 0

RECURSIVE RefTotal(_)
RefTotal(counts) ==
    IF DOMAIN counts = {} THEN 0
    ELSE LET k == CHOOSE x \in DOMAIN counts : TRUE
         IN  counts[k] + RefTotal(Drop(counts, k))

PendingOf(pending, convexArg) ==
    IF convexArg \in DOMAIN pending THEN pending[convexArg] ELSE <<>>

\* values.filter(v => !alreadyActive && !alreadyPending).length
RECURSIVE CountNewValues(_, _, _)
CountNewValues(values, activeSet, pendingList) ==
    IF values = <<>> THEN 0
    ELSE (IF ~Contains(activeSet, toKey(Head(values)))
             /\ ~Contains(MapToKey(pendingList), toKey(Head(values)))
          THEN 1 ELSE 0)
         + CountNewValues(Tail(values), activeSet, pendingList)

\* variant: the single check without the pending count
ViolatesSingleIgnoringPending(values, activeSet, pendingList) ==
    Len(activeSet) + CountNewValues(values, activeSet, <<>>) > 1

ViolatesSingle(values, activeSet, pendingList) ==
    Len(activeSet) + Len(pendingList)
        + CountNewValues(values, activeSet, pendingList) > 1

\* variant: values already active are pushed too
RECURSIVE PushNewValuesUnfiltered(_, _, _)
PushNewValuesUnfiltered(values, activeSet, pendingList) ==
    IF values = <<>> THEN pendingList
    ELSE PushNewValuesUnfiltered(
            Tail(values), activeSet,
            IF ~Contains(MapToKey(pendingList), toKey(Head(values)))
            THEN Append(pendingList, Head(values))
            ELSE pendingList)

\* the inner loop of requestFilters: the pending list with the values that are
\* neither active nor pending pushed
RECURSIVE PushNewValues(_, _, _)
PushNewValues(values, activeSet, pendingList) ==
    IF values = <<>> THEN pendingList
    ELSE PushNewValues(
            Tail(values), activeSet,
            IF ~Contains(activeSet, toKey(Head(values)))
               /\ ~Contains(MapToKey(pendingList), toKey(Head(values)))
            THEN Append(pendingList, Head(values))
            ELSE pendingList)

\* the loop over Object.entries(filters); r == [pending, hasNewValues, threw]
RECURSIVE RequestLoop(_, _)
RequestLoop(filters, r) ==
    IF filters = <<>> \/ r.threw THEN r
    ELSE LET arg == Head(filters).arg
             values == Head(filters).values
         IN  IF arg \notin DOMAIN activeDimensions
             THEN RequestLoop(Tail(filters), r)
             ELSE LET activeSet == activeDimensions[arg]
                      before == PendingOf(r.pending, arg)
                      after == PushNewValues(values, activeSet, before)
                  IN  IF IsSingle(arg) /\ ViolatesSingle(values, activeSet, before)
                      THEN [r EXCEPT !.threw = TRUE]
                      ELSE RequestLoop(
                              Tail(filters),
                              [pending |-> IF after = <<>> THEN r.pending
                                           ELSE Put(r.pending, arg, after),
                               hasNewValues |-> r.hasNewValues \/ after # before,
                               threw |-> FALSE])

\* variant: the decremented count is stored whatever it is
ReleaseRefKeepsZero(counts, compositeKey) ==
    Put(counts, compositeKey, RefCountOf(counts, compositeKey) - 1)

\* releaseFilters: the count decremented, the entry deleted at <= 0
ReleaseRef(counts, compositeKey) ==
    LET count == RefCountOf(counts, compositeKey) - 1
    IN  IF count <= 0 THEN Drop(counts, compositeKey)
        ELSE Put(counts, compositeKey, count)

\* variant: only the first value of each composite key counts as referenced
ReferencedFirstOnly(counts, convexArg) ==
    UNION { UNION { {ck[i].values[1]} :
                    i \in {j \in 1..Len(ck) : ck[j].arg = convexArg} } :
            ck \in DOMAIN counts }

\* the serialized values of convexArg that some composite key of counts holds
ReferencedValues(counts, convexArg) ==
    UNION { UNION { SeqToSet(ck[i].values) :
                    i \in {j \in 1..Len(ck) : ck[j].arg = convexArg} } :
            ck \in DOMAIN counts }

RECURSIVE KeepReferenced(_, _)
KeepReferenced(activeSet, referenced) ==
    IF activeSet = <<>> THEN <<>>
    ELSE IF Head(activeSet) \in referenced
         THEN <<Head(activeSet)>> \o KeepReferenced(Tail(activeSet), referenced)
         ELSE KeepReferenced(Tail(activeSet), referenced)

\* cleanupUnreferencedValues: the active sets without the unreferenced values
PruneActive(active, counts) ==
    [a \in DOMAIN active |-> KeepReferenced(active[a], ReferencedValues(counts, a))]

\* activeSet.add(toKey(value)) for each value
RECURSIVE AddAll(_, _)
AddAll(activeSet, values) ==
    IF values = <<>> THEN activeSet
    ELSE AddAll(IF Contains(activeSet, toKey(Head(values))) THEN activeSet
                ELSE Append(activeSet, toKey(Head(values))),
                Tail(values))

MergePending(active, newFilters) ==
    [a \in DOMAIN active |->
        IF a \in DOMAIN newFilters THEN AddAll(active[a], newFilters[a])
        ELSE active[a]]

\* the <<convexArg, key>> pairs of a pending buffer / of the active sets
PairsOfFilters(newFilters) ==
    UNION { { <<a, toKey(v)>> : v \in SeqToSet(newFilters[a]) } : a \in DOMAIN newFilters }

PairsOfActive(active) ==
    UNION { { <<a, k>> : k \in SeqToSet(active[a]) } : a \in DOMAIN active }

\* what the zero-dimension backfill covers
GlobalScope == <<"*", toKey(Num(0))>>

(***************************************************************************)
(* Configurations and inputs                                               *)
(***************************************************************************)
DimConfigs ==
    { <<>>,
      << [convexArg |-> "a", single |-> FALSE] >>,
      << [convexArg |-> "a", single |-> TRUE] >>,
      << [convexArg |-> "a", single |-> FALSE],
         [convexArg |-> "b", single |-> TRUE] >> }

ValueLists == { <<Num(1)>>, <<Num(2)>>, <<Num(1), Num(2)>> }

\* what loadSubset extracts: dimensions in configuration order, values deduplicated
FilterInputs ==
    IF Len(filterDimensions) = 0 THEN { <<>> }
    ELSE IF Len(filterDimensions) = 1
    THEN { << [arg |-> "a", values |-> vs] >> : vs \in ValueLists }
    ELSE { << [arg |-> "a", values |-> <<Num(1)>>] >>,
           << [arg |-> "b", values |-> <<Num(1)>>] >>,
           << [arg |-> "a", values |-> <<Num(1)>>],
              [arg |-> "b", values |-> <<Num(2)>>] >> }

Reversed(s) == [i \in 1..Len(s) |-> s[Len(s) + 1 - i]]

\* the same combination with its dimensions and its values in the opposite order
Reordered(filters) ==
    Reversed([i \in 1..Len(filters) |->
                 [arg |-> filters[i].arg, values |-> Reversed(filters[i].values)]])

\* what releaseFilters is handed: the combinations requested, written in the
\* opposite order
ReleaseInputs == { Reordered(filters) : filters \in FilterInputs }

Record(k, t, b) == [key |-> k, ts |-> t, body |-> b]

\* query results of the manager specification: nothing, one record, or two
\* versions of it
Batches ==
    { <<>> } \cup { << Record("k1", t, "x") >> : t \in Timestamps }
             \cup { << Record("k1", 1, "x"), Record("k1", MaxTs, "x") >> }

(***************************************************************************)
(* Promises and the debounce timer                                         *)
(***************************************************************************)
\* variant: the timer callback resolves whatever the pass did
SettleSwallowsError(ps, id, status) == [ps EXCEPT ![id].status = "resolved"]

Settle(ps, id, status) == [ps EXCEPT ![id].status = status]

\* scheduleProcessing: the armed timer is cleared, a new one set whose callback
\* settles the promise returned
ScheduleProcessing(filters) ==
    /\ promises' = Append(promises, [status |-> "pending", filters |-> filters])
    /\ debounceTimer' = Len(promises) + 1
    /\ timerArmed' = TRUE

ResolvedPromise(filters) ==
    /\ promises' = Append(promises, [status |-> "resolved", filters |-> filters])
    /\ UNCHANGED << debounceTimer, timerArmed >>

(***************************************************************************)
(* Processing pass                                                         *)
(***************************************************************************)
\* variant: no in-progress test
SkipsPassUnguarded(processing, hasPendingFilters, needsGlobalSync) ==
    ~hasPendingFilters /\ ~needsGlobalSync

\* variant: markReady() is called whenever callbacks are set
SignalsReadyAlways(ready, hasCallbacks) == hasCallbacks

\* processFilterBatch returns at once: a pass is running, or nothing to do
SkipsPass(processing, hasPendingFilters, needsGlobalSync) ==
    processing \/ (~hasPendingFilters /\ ~needsGlobalSync)

\* runBackfill / runGlobalBackfill: the arguments of the backfill query
BackfillArgs(newFilters) ==
    [after |-> 0,
     filters |-> [a \in DOMAIN newFilters |->
                     [array |-> TRUE, values |-> newFilters[a]]]]

\* the values the arguments of a query carry, per dimension
ArgValues(filters) == [a \in DOMAIN filters |-> filters[a].values]

\* the ready latch: markReady() is called when not yet marked and callbacks are set
SignalsReady(ready, hasCallbacks) == ~ready /\ hasCallbacks

(***************************************************************************)
(* Actions                                                                 *)
(***************************************************************************)
SetCallbacks ==
    /\ ~callbacks
    /\ callbacks' = TRUE
    /\ readySignals' = 0
    /\ forcedResubscribes' = 0
    /\ tornDown' = FALSE
    /\ UNCHANGED << configVars, codec, extraction, activeDimensions, refCounts, pendingFilters,
                    globalCursor, currentSubscription, debounceTimer,
                    isProcessing, markedReady, hasRequestedGlobal,
                    globalRefCount, messagesSinceSubscription, timerArmed,
                    promises, inflight, liveSubs, collection, backfilled,
                    deliveries >>

RequestGlobal ==
    /\ globalRefCount < MaxRefs
    /\ globalRefCount' = globalRefCount + 1
    /\ IF ~hasRequestedGlobal
       THEN /\ hasRequestedGlobal' = TRUE
            /\ ScheduleProcessing(<<>>)
            /\ backfilled' = backfilled \ {GlobalScope}
       ELSE /\ ResolvedPromise(<<>>)
            /\ UNCHANGED << hasRequestedGlobal, backfilled >>
    /\ UNCHANGED << refCounts, pendingFilters >>

RequestDimensions(filters) ==
    LET compositeKey == CreateCompositeKey(filters)
        r == RequestLoop(filters, [pending |-> pendingFilters,
                                   hasNewValues |-> FALSE, threw |-> FALSE])
    IN  /\ RefTotal(refCounts) < MaxRefs
        /\ refCounts' = Put(refCounts, compositeKey,
                            RefCountOf(refCounts, compositeKey) + 1)
        /\ pendingFilters' = r.pending
        /\ IF r.threw THEN UNCHANGED << promises, debounceTimer, timerArmed >>
           ELSE IF r.hasNewValues THEN ScheduleProcessing(filters)
           ELSE ResolvedPromise(filters)
        /\ UNCHANGED << hasRequestedGlobal, globalRefCount, backfilled >>

RequestFilters(filters) ==
    /\ callbacks
    /\ Len(promises) < MaxCalls
    /\ IF Len(filterDimensions) = 0 THEN RequestGlobal
       ELSE RequestDimensions(filters)
    /\ UNCHANGED << configVars, codec, extraction, readySignals, activeDimensions, globalCursor,
                    currentSubscription, isProcessing, markedReady,
                    messagesSinceSubscription, callbacks, inflight, liveSubs,
                    forcedResubscribes, tornDown, collection,
                    deliveries >>

ReleaseGlobal ==
    /\ globalRefCount' = Max(0, globalRefCount - 1)
    /\ IF globalRefCount' = 0 /\ hasRequestedGlobal
       THEN /\ hasRequestedGlobal' = FALSE
            /\ SetData(UpdateSubscription(Data, activeDimensions, FALSE))
       ELSE UNCHANGED << hasRequestedGlobal, collection, globalCursor,
                         messagesSinceSubscription, currentSubscription,
                         liveSubs, forcedResubscribes, tornDown >>
    /\ UNCHANGED << refCounts, activeDimensions, backfilled >>

ReleaseDimensions(filters) ==
    LET counts == ReleaseRef(refCounts, CreateCompositeKey(filters))
        active == PruneActive(activeDimensions, counts)
    IN  /\ refCounts' = counts
        /\ activeDimensions' = active
        /\ backfilled' = backfilled \cap PairsOfActive(active)
        /\ IF active # activeDimensions
           THEN SetData(UpdateSubscription(Data, active, hasRequestedGlobal))
           ELSE UNCHANGED << collection, globalCursor,
                             messagesSinceSubscription, currentSubscription,
                             liveSubs, forcedResubscribes, tornDown >>
        /\ UNCHANGED << hasRequestedGlobal, globalRefCount >>

ReleaseFilters(filters) ==
    /\ callbacks
    /\ IF Len(filterDimensions) = 0 THEN ReleaseGlobal
       ELSE ReleaseDimensions(filters)
    /\ UNCHANGED << configVars, codec, extraction, readySignals, pendingFilters, debounceTimer, isProcessing,
                    markedReady, callbacks, timerArmed, promises, inflight,
                    deliveries >>

\* the setTimeout callback: processFilterBatch up to its first await
TimerFires ==
    /\ timerArmed
    /\ timerArmed' = FALSE
    /\ LET owner == debounceTimer
           hasPendingFilters == DOMAIN pendingFilters # {}
           needsGlobalSync == Len(filterDimensions) = 0 /\ hasRequestedGlobal
       IN  IF SkipsPass(isProcessing, hasPendingFilters, needsGlobalSync)
           THEN /\ promises' = Settle(promises, owner, "resolved")
                /\ UNCHANGED << isProcessing, inflight, pendingFilters,
                                activeDimensions, backfilled >>
           ELSE /\ isProcessing' = TRUE
                /\ UNCHANGED promises
                /\ IF Len(filterDimensions) = 0
                   THEN /\ inflight' = Append(inflight,
                                               [owner |-> owner, stale |-> FALSE,
                                                args |-> BackfillArgs(<<>>),
                                                covers |-> {GlobalScope}])
                        /\ UNCHANGED << pendingFilters, activeDimensions,
                                        backfilled >>
                   ELSE LET newFilters == pendingFilters
                        IN  /\ pendingFilters' = <<>>
                            /\ activeDimensions' =
                                   MergePending(activeDimensions, newFilters)
                            /\ backfilled' = backfilled \ PairsOfFilters(newFilters)
                            /\ inflight' = Append(inflight,
                                                   [owner |-> owner, stale |-> FALSE,
                                                    args |-> BackfillArgs(newFilters),
                                                    covers |-> PairsOfFilters(newFilters)])
    /\ UNCHANGED << configVars, codec, extraction, readySignals, refCounts, globalCursor, currentSubscription,
                    debounceTimer, markedReady, hasRequestedGlobal,
                    globalRefCount, messagesSinceSubscription, callbacks,
                    liveSubs, forcedResubscribes, tornDown, collection,
                    deliveries >>

\* client.query resolves: the rest of processFilterBatch
BackfillReturns(items) ==
    /\ inflight # None
    /\ LET d1 == HandleIncomingData(Data, items, activeDimensions,
                                    hasRequestedGlobal)
           d2 == UpdateSubscription(d1, activeDimensions, hasRequestedGlobal)
       IN  SetData(d2)
    /\ IF SignalsReady(markedReady, callbacks)
       THEN /\ markedReady' = TRUE
            /\ readySignals' = IF readySignals < MaxSignals
                               THEN readySignals + 1 ELSE readySignals
       ELSE UNCHANGED << markedReady, readySignals >>
    /\ isProcessing' = FALSE
    /\ promises' = Settle(promises, inflight[1].owner, "resolved")
    /\ backfilled' = IF callbacks THEN backfilled \cup inflight[1].covers
                     ELSE backfilled
    /\ inflight' = Tail(inflight)
    /\ UNCHANGED << configVars, codec, extraction, activeDimensions, refCounts, pendingFilters,
                    debounceTimer, hasRequestedGlobal, globalRefCount,
                    callbacks, timerArmed, deliveries >>

\* client.query rejects: the error passes through the finally block
BackfillFails ==
    /\ inflight # None
    /\ isProcessing' = FALSE
    /\ promises' = Settle(promises, inflight[1].owner, "rejected")
    /\ inflight' = Tail(inflight)
    /\ UNCHANGED << configVars, codec, extraction, readySignals, activeDimensions, refCounts, pendingFilters,
                    globalCursor, currentSubscription, debounceTimer,
                    markedReady, hasRequestedGlobal, globalRefCount,
                    messagesSinceSubscription, callbacks, timerArmed, liveSubs,
                    forcedResubscribes, tornDown, collection, backfilled,
                    deliveries >>

\* the callback of the installed subscription is handed a result
SubscriptionUpdate(items) ==
    /\ currentSubscription # None
    /\ SetData(HandleIncomingData(Data, items, activeDimensions,
                                  hasRequestedGlobal))
    /\ UNCHANGED << configVars, codec, extraction, readySignals, activeDimensions, refCounts, pendingFilters,
                    debounceTimer, isProcessing, markedReady,
                    hasRequestedGlobal, globalRefCount, callbacks, timerArmed,
                    promises, inflight, backfilled >>

SubscriptionDelivers(items) ==
    /\ SubscriptionUpdate(items)
    /\ UNCHANGED deliveries

Cleanup ==
    /\ callbacks
    /\ debounceTimer' = 0
    /\ timerArmed' = FALSE
    /\ SetData([Unsubscribe(Data) EXCEPT !.globalCursor = 0,
                                         !.messagesSinceSubscription = 0])
    /\ activeDimensions' = [a \in DOMAIN activeDimensions |-> <<>>]
    /\ refCounts' = <<>>
    /\ pendingFilters' = <<>>
    /\ markedReady' = FALSE
    /\ hasRequestedGlobal' = FALSE
    /\ globalRefCount' = 0
    /\ callbacks' = FALSE
    /\ backfilled' = {}
    /\ promises' = IF timerArmed THEN Settle(promises, debounceTimer, "cancelled")
                   ELSE promises
    /\ inflight' = [i \in 1..Len(inflight) |-> [inflight[i] EXCEPT !.stale = TRUE]]
    /\ UNCHANGED << configVars, codec, extraction, readySignals, isProcessing,
                    deliveries >>

\* the extraction scenario is not running
NoExtraction ==
    [options |-> None, field |-> None, values |-> None, extracted |-> None]

\* the codec scenario is not running
NoCodec == [value |-> Undefined, other |-> Undefined, keys |-> None,
            restored |-> None]

Init ==
    /\ filterDimensions \in DimConfigs
    /\ tailOverlapMs = OverlapMs
    /\ resubscribeThreshold = Threshold
    /\ activeDimensions = [a \in DimArgs |-> <<>>]
    /\ refCounts = <<>>
    /\ pendingFilters = <<>>
    /\ globalCursor = 0
    /\ currentSubscription = None
    /\ debounceTimer = 0
    /\ isProcessing = FALSE
    /\ markedReady = FALSE
    /\ hasRequestedGlobal = FALSE
    /\ globalRefCount = 0
    /\ messagesSinceSubscription = 0
    /\ callbacks = FALSE
    /\ timerArmed = FALSE
    /\ promises = <<>>
    /\ inflight = None
    /\ liveSubs = <<>>
    /\ collection = <<>>
    /\ hostReadsOwnWrites = FALSE
    /\ backfilled = {}
    /\ deliveries = <<>>
    /\ readySignals = 0
    /\ forcedResubscribes = 0
    /\ tornDown = FALSE
    /\ codec = NoCodec
    /\ extraction = NoExtraction
    /\ collection0 = <<>>

Next ==
    \/ SetCallbacks
    \/ \E filters \in FilterInputs : RequestFilters(filters)
    \/ \E filters \in ReleaseInputs : ReleaseFilters(filters)
    \/ TimerFires
    \/ \E items \in Batches : BackfillReturns(items)
    \/ BackfillFails
    \/ \E items \in Batches : SubscriptionDelivers(items)
    \/ Cleanup

Spec == Init /\ [][Next]_vars

(***************************************************************************)
(* Adapter scenario: the manager driven through loadSubset / unloadSubset, *)
(* whose extraction may find no value of any dimension, with a client that *)
(* may still hand a result to the callback of a subscription that has been *)
(* unsubscribed.                                                           *)
(***************************************************************************)
\* what extractMultipleFilterValues returns: a combination, or nothing
ExtractedInputs == FilterInputs \cup { <<>> }

ReleasedInputs == ReleaseInputs \cup { <<>> }

\* variant: whatever was extracted is handed to requestFilters
LoadSubsetAlwaysRequests(extracted) == RequestFilters(extracted)

LoadSubset(extracted) ==
    IF Len(filterDimensions) = 0 THEN RequestFilters(<<>>)
    ELSE IF extracted = <<>>
    THEN /\ callbacks
         /\ Len(promises) < MaxCalls
         /\ ResolvedPromise(<<>>)
         /\ UNCHANGED << configVars, codec, extraction, readySignals,
                         activeDimensions, refCounts, pendingFilters,
                         globalCursor, currentSubscription, isProcessing,
                         markedReady, hasRequestedGlobal, globalRefCount,
                         messagesSinceSubscription, callbacks, inflight,
                         liveSubs, forcedResubscribes, tornDown, collection,
                         backfilled, deliveries >>
    ELSE RequestFilters(extracted)

UnloadSubset(extracted) ==
    IF Len(filterDimensions) = 0 THEN ReleaseFilters(<<>>)
    ELSE IF extracted = <<>>
    THEN callbacks /\ UNCHANGED vars
    ELSE ReleaseFilters(extracted)

\* the callback of a subscription already unsubscribed is handed a result
StaleSubscriptionDelivers(items) ==
    /\ tornDown
    /\ SetData(HandleIncomingData(Data, items, activeDimensions,
                                  hasRequestedGlobal))
    /\ UNCHANGED << configVars, codec, extraction, readySignals,
                    activeDimensions, refCounts, pendingFilters, debounceTimer,
                    isProcessing, markedReady, hasRequestedGlobal,
                    globalRefCount, callbacks, timerArmed, promises, inflight,
                    backfilled, deliveries >>

NextAdapter ==
    \/ SetCallbacks
    \/ \E extracted \in ExtractedInputs : LoadSubset(extracted)
    \/ \E extracted \in ReleasedInputs : UnloadSubset(extracted)
    \/ TimerFires
    \/ \E items \in Batches : BackfillReturns(items)
    \/ BackfillFails
    \/ \E items \in Batches : SubscriptionDelivers(items)
    \/ \E items \in Batches : StaleSubscriptionDelivers(items)
    \/ Cleanup

SpecAdapter == Init /\ [][NextAdapter]_vars

(***************************************************************************)
(* Delivery scenarios: a session in zero-dimension mode whose subscription *)
(* is installed, any host collection, and two deliveries of any batches of *)
(* at most two records.                                                    *)
(***************************************************************************)
Versions == { Record(k, t, "y") : k \in Keys, t \in Timestamps \cup {NoTs} }

DeliveryBatches ==
    { <<>> } \cup { <<r>> : r \in Versions }
             \cup { <<r1, r2>> : r1 \in Versions, r2 \in Versions }

\* the collections the host can hold: per key nothing, or a record
HostCollections ==
    UNION { [ks -> Timestamps \cup {NoTs}] : ks \in SUBSET Keys }

InitDelivery ==
    /\ filterDimensions = <<>>
    /\ tailOverlapMs = OverlapMs
    /\ resubscribeThreshold = Threshold
    /\ activeDimensions = <<>>
    /\ refCounts = <<>>
    /\ pendingFilters = <<>>
    /\ globalCursor \in 0..MaxTs
    /\ currentSubscription =
           Some(BuildQueryArgs(SubscriptionCursor(globalCursor), <<>>))
    /\ debounceTimer = 1
    /\ isProcessing = FALSE
    /\ markedReady = TRUE
    /\ hasRequestedGlobal = TRUE
    /\ globalRefCount = 1
    /\ messagesSinceSubscription = 0
    /\ callbacks = TRUE
    /\ timerArmed = FALSE
    /\ promises = << [status |-> "resolved", filters |-> <<>>] >>
    /\ inflight = None
    /\ liveSubs = << currentSubscription[1] >>
    /\ \E ts \in HostCollections :
          collection = [k \in DOMAIN ts |-> Record(k, ts[k], "x")]
    /\ hostReadsOwnWrites \in BOOLEAN
    /\ backfilled = {GlobalScope}
    /\ deliveries = <<>>
    /\ readySignals = 1
    /\ forcedResubscribes = 0
    /\ tornDown = FALSE
    /\ codec = NoCodec
    /\ extraction = NoExtraction
    /\ collection0 = collection

FirstDelivery(items) ==
    /\ deliveries = <<>>
    /\ SubscriptionUpdate(items)
    /\ deliveries' = <<items>>

SecondDelivery(items) ==
    /\ Len(deliveries) = 1
    /\ SubscriptionUpdate(items)
    /\ deliveries' = Append(deliveries, items)

NextDelivery ==
    \/ \E items \in DeliveryBatches : FirstDelivery(items)
    \/ \E items \in DeliveryBatches : SecondDelivery(items)

SpecDelivery == InitDelivery /\ [][NextDelivery]_vars

(***************************************************************************)
(* Codec scenario: toKey applied to a value and to a deep-equal value, and *)
(* fromKey applied to the key of the first.                                *)
(***************************************************************************)
\* arrays hold at most MaxLen items and objects at most MaxLen entries
MaxLen == 2

Scalars ==
    { Undefined, Null, NaN, Infinity(1), Infinity(-1), Num(1), Str("s"),
      Str("undefined"), Bool(TRUE), Date("2020"), Date("invalid") }

\* what arrays and objects hold
Items == { Undefined, Num(1), Str("s"), Str("undefined") }

ObjectKeys == { "a", "b", "__type" }

Arrays(n) == UNION { { Arr(items) : items \in [1..m -> Items] } : m \in 0..n }

\* the entry lists of at most n entries with distinct keys, in every order
EntryLists(n) ==
    UNION { { entries \in [1..m -> ObjectKeys \X Items] :
                \A i, j \in 1..m : i # j => entries[i][1] # entries[j][1] } :
            m \in 0..n }

Objects(n) == { Obj(entries) : entries \in EntryLists(n) }

Nested ==
    LET inner == Arrays(1) \cup Objects(1)
    IN  { Arr(<<x>>) : x \in inner } \cup { Obj(<< <<"a", x>> >>) : x \in inner }

CodecValues == Scalars \cup Arrays(MaxLen) \cup Objects(MaxLen) \cup Nested

\* deep equality: arrays item by item, objects key by key whatever the order
\* of their entries, NaN equal to NaN, dates by their time
RECURSIVE DeepEqual(_, _)
DeepEqual(v, w) ==
    /\ TypeOf(v) = TypeOf(w)
    /\ CASE TypeOf(v) = "array" ->
                /\ Len(v[2]) = Len(w[2])
                /\ \A i \in 1..Len(v[2]) : DeepEqual(v[2][i], w[2][i])
         [] TypeOf(v) = "object" ->
                /\ KeysOf(v[2]) = KeysOf(w[2])
                /\ \A k \in KeysOf(v[2]) :
                       DeepEqual(Lookup(v[2], k), Lookup(w[2], k))
         [] OTHER -> v = w

InitCodec ==
    /\ filterDimensions = <<>>
    /\ tailOverlapMs = OverlapMs
    /\ resubscribeThreshold = Threshold
    /\ activeDimensions = <<>>
    /\ refCounts = <<>>
    /\ pendingFilters = <<>>
    /\ globalCursor = 0
    /\ currentSubscription = None
    /\ debounceTimer = 0
    /\ isProcessing = FALSE
    /\ markedReady = FALSE
    /\ hasRequestedGlobal = FALSE
    /\ globalRefCount = 0
    /\ messagesSinceSubscription = 0
    /\ callbacks = FALSE
    /\ timerArmed = FALSE
    /\ promises = <<>>
    /\ inflight = None
    /\ liveSubs = <<>>
    /\ collection = <<>>
    /\ hostReadsOwnWrites = FALSE
    /\ backfilled = {}
    /\ deliveries = <<>>
    /\ readySignals = 0
    /\ forcedResubscribes = 0
    /\ tornDown = FALSE
    /\ extraction = NoExtraction
    /\ \E v \in CodecValues :
          \E w \in { x \in CodecValues : DeepEqual(v, x) } :
             codec = [value |-> v, other |-> w, keys |-> None, restored |-> None]
    /\ collection0 = <<>>

managerVars ==
    << filterDimensions, tailOverlapMs, resubscribeThreshold, activeDimensions,
       refCounts, pendingFilters, globalCursor, currentSubscription,
       debounceTimer, isProcessing, markedReady, hasRequestedGlobal,
       globalRefCount, messagesSinceSubscription, callbacks, timerArmed,
       promises, inflight, liveSubs, collection, hostReadsOwnWrites,
       backfilled, deliveries, readySignals, forcedResubscribes, tornDown,
       collection0 >>

\* toKey(value) and toKey(other)
ComputeKeys ==
    /\ codec.keys = None
    /\ codec' = [codec EXCEPT !.keys = << toKey(codec.value), toKey(codec.other) >>]
    /\ UNCHANGED << managerVars, extraction >>

\* fromKey(toKey(value))
RestoreValue ==
    /\ codec.keys # None
    /\ codec.restored = None
    /\ codec' = [codec EXCEPT !.restored = Some(fromKey(codec.keys[1]))]
    /\ UNCHANGED << managerVars, extraction >>

NextCodec == ComputeKeys \/ RestoreValue

SpecCodec == InitCodec /\ [][NextCodec]_vars

(***************************************************************************)
(* Expression parser.  A node of a where tree is a record: a property      *)
(* reference [type "ref", path], a literal [type "val", value] or a        *)
(* function call [type "func", name, args].                                *)
(***************************************************************************)
Ref(path) == [type |-> "ref", path |-> path]
Val(value) == [type |-> "val", value |-> value]
Func(name, args) == [type |-> "func", name |-> name, args |-> args]

isPropRef(expr) == expr.type = "ref" /\ "path" \in DOMAIN expr
isValue(expr) == expr.type = "val" /\ "value" \in DOMAIN expr
isFunc(expr) == expr.type = "func" /\ {"name", "args"} \subseteq DOMAIN expr

propRefMatchesField(propRef, fieldName) ==
    LET path == propRef.path
    IN  \/ Len(path) = 1 /\ path[1] = fieldName
        \/ Len(path) = 2 /\ path[2] = fieldName

\* variant: only the order (field, literal) is recognised
extractFromEqLeftOnly(func, filterField) ==
    IF Len(func.args) # 2 THEN <<>>
    ELSE LET left == func.args[1]
             right == func.args[2]
         IN  IF isPropRef(left) /\ propRefMatchesField(left, filterField)
                /\ isValue(right)
             THEN << right.value >>
             ELSE <<>>

extractFromEq(func, filterField) ==
    IF Len(func.args) # 2 THEN <<>>
    ELSE LET left == func.args[1]
             right == func.args[2]
         IN  IF isPropRef(left) /\ propRefMatchesField(left, filterField)
                /\ isValue(right)
             THEN << right.value >>
             ELSE IF isValue(left) /\ isPropRef(right)
                     /\ propRefMatchesField(right, filterField)
             THEN << left.value >>
             ELSE <<>>

extractFromIn(func, filterField) ==
    IF Len(func.args) # 2 THEN <<>>
    ELSE LET left == func.args[1]
             right == func.args[2]
         IN  IF isPropRef(left) /\ propRefMatchesField(left, filterField)
                /\ isValue(right) /\ TypeOf(right.value) = "array"
             THEN right.value[2]
             ELSE <<>>

RECURSIVE walkExpression(_, _)
walkExpression(expr, filterField) ==
    IF ~isFunc(expr) THEN <<>>
    ELSE IF expr.name = "eq" THEN extractFromEq(expr, filterField)
    ELSE IF expr.name = "in" THEN extractFromIn(expr, filterField)
    ELSE LET RECURSIVE each(_)
             each(args) ==
                 IF args = <<>> THEN <<>>
                 ELSE walkExpression(Head(args), filterField) \o each(Tail(args))
         IN  each(expr.args)

extractFilterValues(options, filterField) ==
    IF "where" \notin DOMAIN options THEN <<>>
    ELSE LET RECURSIVE unique(_, _, _)
             unique(seen, out, values) ==
                 IF values = <<>> THEN out
                 ELSE LET key == toKey(Head(values))
                      IN  IF key \in seen THEN unique(seen, out, Tail(values))
                          ELSE unique(seen \cup {key}, Append(out, Head(values)),
                                      Tail(values))
         IN  unique({}, <<>>, walkExpression(options.where, filterField))

RECURSIVE extractMultipleFilterValues(_, _)
extractMultipleFilterValues(options, dims) ==
    IF dims = <<>> THEN <<>>
    ELSE LET values == extractFilterValues(options, Head(dims).filterField)
         IN  ( IF Len(values) > 0
               THEN << [arg |-> Head(dims).convexArg, values |-> values] >>
               ELSE <<>> )
             \o extractMultipleFilterValues(options, Tail(dims))

(***************************************************************************)
(* Extraction scenario: the parser applied to the options of a             *)
(* loadSubset call, for two configured dimensions, fields f and g.         *)
(***************************************************************************)
ExtractDimensions ==
    << [filterField |-> "f", convexArg |-> "a", single |-> FALSE],
       [filterField |-> "g", convexArg |-> "b", single |-> FALSE] >>

Operands ==
    { Ref(path) : path \in { <<"f">>, <<"t", "f">>, <<"f", "g">>, <<"t", "f", "g">> } }
    \cup { Val(value) : value \in { Num(1), Num(2), Arr(<< Num(1), Num(2) >>),
                                     Arr(<< Num(2), Num(2) >>) } }

\* eq and in applied to any two operands, to one and to three
Comparisons ==
    { Func(name, << l, r >>) : name \in {"eq", "in"}, l \in Operands, r \in Operands }
    \cup { Func(name, << Ref(<<"f">>) >>) : name \in {"eq", "in"} }
    \cup { Func(name, << Ref(<<"f">>), Val(Num(1)), Val(Num(2)) >>) :
              name \in {"eq", "in"} }

Chosen ==
    { Func("eq", << Ref(<<"f">>), Val(Num(1)) >>),
      Func("eq", << Val(Num(2)), Ref(<<"t", "f">>) >>),
      Func("eq", << Ref(<<"f", "g">>), Val(Num(2)) >>),
      Func("in", << Ref(<<"f">>), Val(Arr(<< Num(1), Num(2) >>)) >>),
      Func("in", << Ref(<<"t", "f">>), Val(Arr(<< Num(2), Num(2) >>)) >>),
      Func("in", << Val(Arr(<< Num(1), Num(2) >>)), Ref(<<"f">>) >>) }

\* bare operands, comparisons, and/or/not over comparisons at two depths, and
\* a comparison as operand of an eq
Wheres ==
    LET compound(parts, others) ==
            { Func(name, << l, r >>) :
                name \in {"and", "or", "not"}, l \in parts, r \in others }
    IN  Operands \cup Comparisons \cup compound(Chosen, Chosen)
        \cup compound(compound(Chosen, Chosen), Chosen)
        \cup { Func("eq", << c, Val(Num(1)) >>) : c \in Chosen }

ExtractOptions == { [limit |-> 1] } \cup { [where |-> w] : w \in Wheres }

InitExtract ==
    /\ filterDimensions = ExtractDimensions
    /\ tailOverlapMs = OverlapMs
    /\ resubscribeThreshold = Threshold
    /\ activeDimensions = [a \in {"a", "b"} |-> <<>>]
    /\ refCounts = <<>>
    /\ pendingFilters = <<>>
    /\ globalCursor = 0
    /\ currentSubscription = None
    /\ debounceTimer = 0
    /\ isProcessing = FALSE
    /\ markedReady = FALSE
    /\ hasRequestedGlobal = FALSE
    /\ globalRefCount = 0
    /\ messagesSinceSubscription = 0
    /\ callbacks = FALSE
    /\ timerArmed = FALSE
    /\ promises = <<>>
    /\ inflight = None
    /\ liveSubs = <<>>
    /\ collection = <<>>
    /\ hostReadsOwnWrites = FALSE
    /\ backfilled = {}
    /\ deliveries = <<>>
    /\ readySignals = 0
    /\ forcedResubscribes = 0
    /\ tornDown = FALSE
    /\ codec = NoCodec
    /\ \E options \in ExtractOptions, field \in {"f", "g"} :
          extraction = [options |-> options, field |-> field,
                        values |-> None, extracted |-> None]
    /\ collection0 = <<>>

\* extractFilterValues(options, field)
ExtractValues ==
    /\ extraction.values = None
    /\ extraction' =
           [extraction EXCEPT
               !.values = Some(extractFilterValues(extraction.options,
                                                   extraction.field))]
    /\ UNCHANGED << managerVars, codec >>

\* extractMultipleFilterValues(options, filterDimensions)
ExtractMultiple ==
    /\ extraction.extracted = None
    /\ extraction' =
           [extraction EXCEPT
               !.extracted = Some(extractMultipleFilterValues(extraction.options,
                                                              filterDimensions))]
    /\ UNCHANGED << managerVars, codec >>

NextExtract == ExtractValues \/ ExtractMultiple

SpecExtract == InitExtract /\ [][NextExtract]_vars

(***************************************************************************)
(* Properties                                                              *)
(***************************************************************************)
\* no timer is armed and no query is awaited
Quiescent == ~timerArmed /\ inflight = None

\* the <<convexArg, key>> pairs a request asks for (the global scope without dimensions)
RequestedPairs(filters) ==
    IF Len(filterDimensions) = 0 THEN {GlobalScope}
    ELSE UNION { { <<filters[i].arg, toKey(v)>> : v \in SeqToSet(filters[i].values) } :
                 i \in {j \in 1..Len(filters) : filters[j].arg \in DimArgs} }

\* promise i becomes resolved in this step (or is created resolved)
ResolvesNow(i) ==
    /\ promises'[i].status = "resolved"
    /\ (i > Len(promises) \/ promises[i].status # "resolved")

\* two deliveries, each of one version of the same key, with different timestamps
TwoVersionsDelivered ==
    /\ Len(deliveries) = 2
    /\ Len(deliveries[1]) = 1
    /\ Len(deliveries[2]) = 1
    /\ deliveries[1][1].key = deliveries[2][1].key
    /\ deliveries[1][1].ts # NoTs
    /\ deliveries[2][1].ts # NoTs
    /\ deliveries[1][1].ts # deliveries[2][1].ts

NewerDelivered ==
    IF deliveries[1][1].ts > deliveries[2][1].ts THEN deliveries[1][1]
    ELSE deliveries[2][1]

\* C1: two versions of a key k with timestamps t1 < t2, handed to
\* handleIncomingData in two separate deliveries in either order, leave the
\* collection holding the t2 version of k (the collection held no version of k
\* as new as t2 before: k was absent, older, or without a timestamp).
C1_LastWriteWins ==
    ( /\ TwoVersionsDelivered
      /\ \/ NewerDelivered.key \notin DOMAIN collection0
         \/ collection0[NewerDelivered.key].ts < NewerDelivered.ts )
    => /\ NewerDelivered.key \in DOMAIN collection
       /\ collection[NewerDelivered.key] = NewerDelivered

\* the newer version was delivered first into a collection without k, the
\* older one second, and the collection still holds the newer version
C1_Witness ==
    /\ TwoVersionsDelivered
    /\ deliveries[1][1].ts > deliveries[2][1].ts
    /\ deliveries[1][1].key \notin DOMAIN collection0
    /\ deliveries[1][1].key \in DOMAIN collection
    /\ collection[deliveries[1][1].key] = deliveries[1][1]

\* C2: reconciliation is idempotent: delivering a batch B a second time leaves
\* the collection contents and globalCursor as the first delivery of B left them.
C2_Idempotent ==
    [][ ( /\ Len(deliveries) = 1
          /\ Len(deliveries') = 2
          /\ deliveries'[2] = deliveries[1] )
        => ( collection' = collection /\ globalCursor' = globalCursor ) ]_vars

\* C3: globalCursor never decreases from one state to the next, whatever the
\* timestamps of the records the backfills and the subscription deliver; only
\* cleanup() resets it.
C3_CursorMonotonic == [][ Cleanup \/ globalCursor' >= globalCursor ]_vars

\* the cursor has moved past the subscription's lower bound plus the overlap:
\* a subscription delivery advanced it after the backfill pass installed the tail
C3_Witness ==
    /\ currentSubscription # None
    /\ markedReady
    /\ globalCursor = MaxTs
    /\ currentSubscription[1].after + tailOverlapMs < globalCursor

\* C4: from a fresh session, requestFilters(F) then releaseFilters(F), once the
\* debounce/backfill cycle has completed, leaves the active sets (empty) and the
\* reference counts (empty) as before the pair: nothing of F stays active.
C4_RequestReleaseRestores ==
    ( /\ callbacks
      /\ Quiescent
      /\ Len(promises) = 1
      /\ promises[1].status = "resolved"
      /\ refCounts = <<>>
      /\ globalRefCount = 0 )
    => /\ \A a \in DOMAIN activeDimensions : activeDimensions[a] = <<>>
       /\ currentSubscription = None

\* C5: a promise returned by requestFilters resolves only when a backfill
\* covering every requested value (the global backfill without dimensions) has
\* returned successfully and been reconciled.
C5_ResolvedMeansSynced ==
    [][ \A i \in 1..Len(promises') :
           ResolvesNow(i) => RequestedPairs(promises'[i].filters) \subseteq backfilled' ]_vars

\* C6: every caller coalesced into a debounced batch is settled when the batch
\* completes: when a pass ends (its query returns or fails) and no newer timer
\* is armed, no promise is left pending.
C6_NoCallerLeftPending ==
    [][ ( inflight # None /\ inflight' = None /\ ~timerArmed' )
        => \A i \in 1..Len(promises') : promises'[i].status # "pending" ]_vars

\* C7: a value a request added to the pending buffer is picked up by a pass:
\* once the request's promise is resolved, no timer is armed and no pass is in
\* flight, none of the values it asked for is still in the pending buffer.
C7_PendingPickedUp ==
    ( callbacks /\ Quiescent )
    => \A i \in 1..Len(promises) :
          promises[i].status = "resolved"
          => RequestedPairs(promises[i].filters) \cap PairsOfFilters(pendingFilters) = {}

\* C8: every value in an active set has been covered by a backfill query that
\* returned successfully since the value became active.
C8_ActiveMeansBackfilled == PairsOfActive(activeDimensions) \subseteq backfilled

\* the <<convexArg, value key>> pairs of the installed subscription's arguments
PairsOfSubscription ==
    IF currentSubscription = None THEN {}
    ELSE LET f == currentSubscription[1].filters
         IN  UNION { { <<a, toKey(v)>> : v \in SeqToSet(f[a].values) } : a \in DOMAIN f }

\* C9: a value is in the active set of a dimension if and only if the query
\* arguments of the installed live subscription include it for that dimension.
C9_ActiveIffSubscribed == PairsOfActive(activeDimensions) = PairsOfSubscription

\* promise j is a retry: an earlier request for the same filters was rejected
IsRetry(j) ==
    \E i \in 1..(j - 1) :
        /\ i <= Len(promises)
        /\ promises[i].status = "rejected"
        /\ promises[i].filters = promises'[j].filters

\* C10: after a failed backfill, a retried requestFilters for the same values
\* re-backfills: its promise resolves only after a new backfill covering the
\* values has succeeded, and then a live subscription is installed.
C10_RetryRebackfills ==
    [][ \A j \in 1..Len(promises') :
           ( ResolvesNow(j) /\ IsRetry(j) )
           => /\ RequestedPairs(promises'[j].filters) \subseteq backfilled'
              /\ currentSubscription' # None ]_vars

\* C11: when the backfill query of a pass fails, the promise of the request
\* that triggered the pass is rejected, the in-progress flag is cleared, the
\* values merged into the active sets stay, and the pass neither rebuilds the
\* subscription nor signals ready.
C11_FailedBackfill ==
    [][ BackfillFails
        => /\ promises'[inflight[1].owner].status = "rejected"
           /\ ~isProcessing'
           /\ activeDimensions' = activeDimensions
           /\ currentSubscription' = currentSubscription
           /\ liveSubs' = liveSubs
           /\ markedReady' = markedReady
           /\ readySignals' = readySignals ]_vars

\* a first pass has failed: its caller is rejected, its value is active, no
\* subscription is installed, ready was not signalled, and a pass may run again
C11_Witness ==
    /\ callbacks
    /\ Len(promises) = 1
    /\ promises[1].status = "rejected"
    /\ ~isProcessing
    /\ inflight = None
    /\ HasActiveValues(activeDimensions)
    /\ currentSubscription = None
    /\ ~markedReady

\* the distinct values a single dimension would hold if the call went through
DistinctAfter(filters, i) ==
    SeqToSet(activeDimensions[filters[i].arg])
    \cup SeqToSet(MapToKey(PendingOf(pendingFilters, filters[i].arg)))
    \cup SeqToSet(MapToKey(filters[i].values))

\* the call requestFilters(filters) would bring a single dimension above one value
WouldExceedSingle(filters) ==
    \E i \in 1..Len(filters) :
        /\ filters[i].arg \in DimArgs
        /\ IsSingle(filters[i].arg)
        /\ Cardinality(DistinctAfter(filters, i)) > 1

\* the call requestFilters(filters) threw: it returned no promise
Threw(filters) == RequestFilters(filters) /\ promises' = promises

\* C12: for every single dimension, active values plus pending values number at
\* most 1 in every state, and a requestFilters call that would bring
\* active + pending + new above 1 throws instead of returning a promise.
C12_SingleAtMostOne ==
    [][ /\ \A a \in DimArgs :
              IsSingle(a) => Len(activeDimensions'[a])
                                + Len(PendingOf(pendingFilters', a)) <= 1
        /\ \A filters \in FilterInputs :
              ( RequestFilters(filters) /\ WouldExceedSingle(filters) )
              => /\ promises' = promises
                 /\ \A a \in DimArgs :
                       IsSingle(a) => PendingOf(pendingFilters', a)
                                        = PendingOf(pendingFilters, a) ]_vars

\* a single dimension holds its one value, and a second request for another
\* value has thrown: its reference was counted but no promise was returned
C12_Witness ==
    /\ Len(filterDimensions) = 1
    /\ IsSingle("a")
    /\ activeDimensions["a"] = << toKey(Num(1)) >>
    /\ PendingOf(pendingFilters, "a") = <<>>
    /\ Len(promises) = 1
    /\ RefTotal(refCounts) = 2

\* C13: a requestFilters call that throws the single-value error mutates
\* nothing: reference counts, pending buffer, active sets and debounce timer
\* are as before the call.
C13_ThrowMutatesNothing ==
    [][ \A filters \in FilterInputs :
           Threw(filters)
           => UNCHANGED << refCounts, pendingFilters, activeDimensions,
                           debounceTimer, timerArmed >> ]_vars

\* C14: at most one live subscription is installed on the client and not yet
\* unsubscribed, and it is the one whose handle the manager holds: a new one is
\* installed only after the previous one was unsubscribed.
C14_OneLiveSubscription ==
    /\ Len(liveSubs) <= 1
    /\ liveSubs = IF currentSubscription = None THEN <<>>
                  ELSE << currentSubscription[1] >>

\* two requests were synced by two passes, the subscription was rebuilt to
\* cover both values, and it is the only one installed
C14_Witness ==
    /\ Len(filterDimensions) = 1
    /\ Len(promises) = 2
    /\ \A i \in 1..2 : /\ promises[i].status = "resolved"
                       /\ promises[i].filters = << [arg |-> "a", values |-> <<Num(i)>>] >>
    /\ currentSubscription # None
    /\ currentSubscription[1].filters["a"].values = <<Num(1), Num(2)>>
    /\ Len(liveSubs) = 1

\* the pair <<convexArg, key>> is held by a composite key that survives the step
StillReferenced(pair) ==
    \E ck \in DOMAIN refCounts' :
        /\ refCounts'[ck] > 0
        /\ \E i \in 1..Len(ck) :
              ck[i].arg = pair[1] /\ pair[2] \in SeqToSet(ck[i].values)

\* C15: releaseFilters removes a value from an active set only if no surviving
\* composite key (positive reference count) contains that value.
C15_NoPrematureEviction ==
    [][ \A filters \in ReleaseInputs :
           ReleaseFilters(filters)
           => \A pair \in PairsOfActive(activeDimensions) :
                 StillReferenced(pair) => pair \in PairsOfActive(activeDimensions') ]_vars

\* {1,2} was requested and synced, {1} was requested and released again, and
\* both values are still active and subscribed through the combination {1,2}
C15_Witness ==
    /\ Len(filterDimensions) = 1
    /\ Len(promises) = 2
    /\ promises[1].filters = << [arg |-> "a", values |-> <<Num(1), Num(2)>>] >>
    /\ promises[2].filters = << [arg |-> "a", values |-> <<Num(1)>>] >>
    /\ DOMAIN refCounts = { CreateCompositeKey(promises[1].filters) }
    /\ SeqToSet(activeDimensions["a"]) = { toKey(Num(1)), toKey(Num(2)) }
    /\ currentSubscription # None
    /\ currentSubscription[1].filters["a"].values = <<Num(1), Num(2)>>

\* C16: in filter mode a pass issues one backfill query with after = 0 whose
\* filter arguments are exactly the values the pass moved from the pending
\* buffer to the active sets; a value already active before the pass is not
\* among them.
C16_BackfillExactlyNew ==
    [][ ( Len(filterDimensions) > 0 /\ Len(inflight') > Len(inflight) )
        => /\ Len(inflight') = Len(inflight) + 1
           /\ LET q == inflight'[Len(inflight')]
              IN  /\ q.args.after = 0
                  /\ PairsOfFilters(ArgValues(q.args.filters))
                        = PairsOfActive(activeDimensions')
                             \ PairsOfActive(activeDimensions)
                  /\ PairsOfFilters(ArgValues(q.args.filters))
                        \cap PairsOfActive(activeDimensions) = {}
                  /\ PairsOfFilters(ArgValues(q.args.filters)) = PairsOfFilters(pendingFilters)
                  /\ pendingFilters' = <<>> ]_vars

\* {1} was requested and synced, then {1,2}: the second pass backfills only 2
C16_Witness ==
    /\ Len(filterDimensions) = 1
    /\ Len(promises) = 2
    /\ promises[1].status = "resolved"
    /\ promises[2].filters = << [arg |-> "a", values |-> <<Num(1), Num(2)>>] >>
    /\ inflight # None
    /\ inflight[1].args = BackfillArgs([a |-> <<Num(2)>>])
    /\ activeDimensions["a"] = << toKey(Num(1)), toKey(Num(2)) >>

\* a releaseFilters({}) step of a live session (cleanup ends the session)
GlobalRelease == \E filters \in ReleaseInputs : ReleaseFilters(filters)

\* C17: without dimensions, a request schedules a backfill only when it takes
\* the global reference count from 0 to 1, and a backfill query is issued only
\* by such a scheduled timer; a release that leaves the count positive keeps the
\* live subscription, the release that brings it to 0 tears it down; the count
\* never goes below 0.
C17_GlobalRefCount ==
    [][ Len(filterDimensions) = 0
        => /\ globalRefCount' >= 0
           /\ globalRefCount' = 0 => currentSubscription' = None
           /\ ( globalRefCount' > globalRefCount /\ debounceTimer' # debounceTimer )
              => globalRefCount = 0
           /\ Len(inflight') > Len(inflight) => ( timerArmed /\ ~timerArmed' )
           /\ ( GlobalRelease /\ globalRefCount > 1 )
              => ( currentSubscription' = currentSubscription
                   /\ liveSubs' = liveSubs )
           /\ ( GlobalRelease /\ globalRefCount = 1 )
              => ( globalRefCount' = 0 /\ currentSubscription' = None
                   /\ liveSubs' = <<>> ) ]_vars

\* two global requests were made and one backfill ran; one release has left the
\* subscription installed
C17_Witness ==
    /\ Len(filterDimensions) = 0
    /\ Len(promises) = 2
    /\ promises[1].status = "resolved"
    /\ debounceTimer = 1
    /\ globalRefCount = 1
    /\ currentSubscription # None
    /\ Quiescent

\* C18: at most one processing pass, hence at most one backfill query, is in
\* flight; a debounce timer that fires while a pass is running starts no
\* second pass and issues no query.
C18_PassesExclusive ==
    [][ /\ Len(inflight') <= 1
        /\ inflight' # None => isProcessing'
        /\ ( TimerFires /\ isProcessing )
           => ( inflight' = inflight /\ activeDimensions' = activeDimensions
                /\ pendingFilters' = pendingFilters ) ]_vars

\* a second timer has fired while the first pass was awaiting its query: the
\* second caller is resolved, the first pass is still the only one in flight
C18_Witness ==
    /\ Len(promises) = 2
    /\ promises[1].status = "pending"
    /\ promises[2].status = "resolved"
    /\ isProcessing
    /\ Len(inflight) = 1
    /\ inflight[1].owner = 1
    /\ ~timerArmed
    /\ debounceTimer = 2

\* a requestFilters call that scheduled processing (it returned a pending promise)
QualifyingRequest ==
    /\ \E filters \in FilterInputs : RequestFilters(filters)
    /\ Len(promises') = Len(promises) + 1
    /\ promises'[Len(promises')].status = "pending"

\* C19: no backfill query is issued before a debounce timer expires; a
\* qualifying request that arrives while the timer is armed cancels and re-arms
\* it; and when the timer fires, all values requested until then are processed
\* by one pass with one backfill query.
C19_DebounceCoalesces ==
    [][ /\ Len(inflight') > Len(inflight) => ( timerArmed /\ ~timerArmed' )
        /\ ( QualifyingRequest /\ timerArmed )
           => ( timerArmed' /\ debounceTimer' # debounceTimer )
        /\ ( TimerFires /\ Len(filterDimensions) > 0 /\ pendingFilters # <<>> )
           => /\ Len(inflight') = Len(inflight) + 1
              /\ ArgValues(inflight'[Len(inflight')].args.filters) = pendingFilters
              /\ pendingFilters' = <<>> ]_vars

\* C20: within one sync session markReady is invoked at most once, and only at
\* the end of a processing pass whose backfill completed successfully; failed
\* passes, later passes and re-subscriptions do not invoke it.
C20_ReadyLatch ==
    [][ /\ readySignals' <= 1
        /\ readySignals' > readySignals
           => /\ inflight # None
              /\ inflight' = Tail(inflight)
              /\ promises'[inflight[1].owner].status = "resolved"
              /\ ~markedReady /\ markedReady'
        /\ BackfillFails => readySignals' = readySignals
        /\ ( \E items \in Batches : SubscriptionDelivers(items) )
           => readySignals' = readySignals ]_vars

\* two passes have completed successfully in one session and ready was
\* signalled once
C20_Witness ==
    /\ Len(filterDimensions) = 1
    /\ callbacks
    /\ markedReady
    /\ readySignals = 1
    /\ Len(promises) = 2
    /\ \A i \in 1..2 : promises[i].status = "resolved"
    /\ backfilled = { <<"a", toKey(Num(1))>>, <<"a", toKey(Num(2))>> }
    /\ debounceTimer = 2
    /\ Quiescent

\* the records of a batch that handleIncomingData counts as new
NewItemCount(items) ==
    ReconcileItems([cursor |-> globalCursor, writes |-> <<>>, newItemCount |-> 0],
                   items, collection, globalCursor).newItemCount

\* C21: with a positive threshold and a live subscription, a delivery rebuilds
\* the subscription exactly when the count of new records since the last
\* (re)subscription reaches the threshold; the counter left is then at most the
\* remainder, and below the threshold the counter holds the count.  No other
\* step rebuilds the subscription on account of the counter.
C21_ForcedResubscribe ==
    [][ /\ \A items \in Batches :
              ( /\ SubscriptionDelivers(items)
                /\ callbacks
                /\ resubscribeThreshold > 0
                /\ forcedResubscribes < MaxForced )
              => LET total == messagesSinceSubscription + NewItemCount(items)
                 IN  IF total >= resubscribeThreshold
                     THEN /\ forcedResubscribes' = forcedResubscribes + 1
                          /\ currentSubscription' # None
                          /\ messagesSinceSubscription'
                                <= total - resubscribeThreshold
                     ELSE /\ forcedResubscribes' = forcedResubscribes
                          /\ currentSubscription' = currentSubscription
                          /\ messagesSinceSubscription' = total
        /\ forcedResubscribes' > forcedResubscribes
              => /\ currentSubscription # None
                 /\ \E items \in Batches :
                       messagesSinceSubscription + NewItemCount(items)
                           >= resubscribeThreshold ]_vars

\* one pass installed the subscription, and deliveries of new records then
\* made handleIncomingData rebuild it
C21_Witness ==
    /\ Len(promises) = 1
    /\ promises[1].status = "resolved"
    /\ forcedResubscribes = 1
    /\ currentSubscription # None
    /\ messagesSinceSubscription = 0
    /\ globalCursor >= resubscribeThreshold

\* C22: a subscription is installed with after = max(0, globalCursor -
\* tailOverlapMs), the cursor being the one at installation: never negative,
\* never beyond the cursor.
C22_OverlapCursor ==
    [][ ( /\ currentSubscription' # None
          /\ \/ currentSubscription' # currentSubscription
             \/ forcedResubscribes' # forcedResubscribes )
        => LET after == currentSubscription'[1].after
           IN  /\ after = Max(0, globalCursor' - tailOverlapMs)
               /\ after >= 0
               /\ after <= globalCursor' ]_vars

\* a subscription installed at the largest cursor, the overlap subtracted
C22_Witness ==
    /\ currentSubscription # None
    /\ globalCursor = MaxTs
    /\ currentSubscription[1].after = MaxTs - tailOverlapMs
    /\ currentSubscription[1].after > 0

\* the two records of a batch differ in key, or carry distinct timestamps
Reorderable(items) ==
    /\ Len(items) = 2
    /\ \/ getKey(items[1]) # getKey(items[2])
       \/ /\ items[1].ts # NoTs
          /\ items[2].ts # NoTs
          /\ items[1].ts # items[2].ts

\* C23: the collection a batch leaves does not depend on the order of its two
\* records when they differ in key or in timestamp; of two versions of one key
\* the collection keeps the newer, unless it already held a still newer one.
C23_OrderIndependent ==
    [][ \A items \in DeliveryBatches :
           ( FirstDelivery(items) /\ Reorderable(items) )
           => /\ collection'
                    = HandleIncomingData(Data, Reversed(items), activeDimensions,
                                         hasRequestedGlobal).collection
              /\ getKey(items[1]) = getKey(items[2])
                    => LET k == getKey(items[1])
                           newer == IF items[1].ts > items[2].ts
                                    THEN items[1] ELSE items[2]
                       IN  IF k \in DOMAIN collection
                              /\ collection[k].ts >= newer.ts
                           THEN collection'[k] = collection[k]
                           ELSE collection'[k] = newer ]_vars

\* C24: no value is both in the active set and in the pending buffer of a
\* dimension.
C24_ActivePendingDisjoint ==
    PairsOfActive(activeDimensions) \cap PairsOfFilters(pendingFilters) = {}

\* 1 is active, {1,2} was requested afterwards, and only 2 is pending
C24_Witness ==
    /\ Len(filterDimensions) = 1
    /\ Len(promises) = 2
    /\ promises[2].filters = << [arg |-> "a", values |-> <<Num(1), Num(2)>>] >>
    /\ activeDimensions["a"] = << toKey(Num(1)) >>
    /\ pendingFilters = [a |-> <<Num(2)>>]

\* C25: every reference count stored is at least 1; a release that takes a
\* count to zero removes the entry, and a release of a combination without an
\* entry leaves the counts as they are.
C25_RefCountsPositive ==
    [][ /\ \A ck \in DOMAIN refCounts' : refCounts'[ck] >= 1
        /\ \A filters \in ReleaseInputs :
              ( ReleaseFilters(filters) /\ Len(filterDimensions) > 0 )
              => LET ck == CreateCompositeKey(filters)
                 IN  /\ RefCountOf(refCounts, ck) <= 1 => ck \notin DOMAIN refCounts'
                     /\ ck \notin DOMAIN refCounts => refCounts' = refCounts ]_vars

\* a combination was requested in this session and released again
C25_Witness ==
    /\ callbacks
    /\ Len(filterDimensions) > 0
    /\ pendingFilters # <<>>
    /\ refCounts = <<>>

\* C26: cleanup() leaves the active sets, the reference counts and the pending
\* buffer empty, the cursor, the message counter and the global reference count
\* at 0, no debounce timer armed, and no subscription: the live one is
\* unsubscribed and its handle dropped.
C26_CleanupResets ==
    [][ ( callbacks /\ ~callbacks' )
        => /\ \A a \in DOMAIN activeDimensions' : activeDimensions'[a] = <<>>
           /\ refCounts' = <<>>
           /\ pendingFilters' = <<>>
           /\ globalCursor' = 0
           /\ messagesSinceSubscription' = 0
           /\ globalRefCount' = 0
           /\ ~timerArmed'
           /\ debounceTimer' = 0
           /\ currentSubscription' = None
           /\ liveSubs' = <<>> ]_vars

\* cleanup() of a session that had synced a request and received data
C26_Witness ==
    /\ ~callbacks
    /\ Len(promises) >= 1
    /\ promises[1].status = "resolved"
    /\ collection # <<>>
    /\ currentSubscription = None
    /\ globalCursor = 0

\* the arguments pass the value of every single dimension directly
DirectForSingle(filters) ==
    \A a \in DOMAIN filters : IsSingle(a) => ~filters[a].array

\* C27: a dimension flagged single passes its value directly, not as an array,
\* in the arguments of every query: the backfill and the subscription.
C27_SingleDirect ==
    /\ \A i \in 1..Len(inflight) : DirectForSingle(inflight[i].args.filters)
    /\ \A i \in 1..Len(liveSubs) : DirectForSingle(liveSubs[i].filters)

\* the combinations name the same values of the same dimensions
SameCombination(f, g) ==
    /\ { f[i].arg : i \in 1..Len(f) } = { g[i].arg : i \in 1..Len(g) }
    /\ \A i \in 1..Len(f) : \A j \in 1..Len(g) :
          f[i].arg = g[j].arg => SeqToSet(f[i].values) = SeqToSet(g[j].values)

\* C28: the same dimensions and values in another order map to the same
\* reference count entry: releaseFilters with one order undoes a
\* requestFilters with another.
C28_KeyIgnoresOrder ==
    [][ \A g \in ReleaseInputs :
           ( ReleaseFilters(g) /\ Len(filterDimensions) > 0 )
           => \A f \in FilterInputs :
                 SameCombination(f, g)
                 => LET ck == CreateCompositeKey(f)
                    IN  RefCountOf(refCounts', ck)
                           = Max(0, RefCountOf(refCounts, ck) - 1) ]_vars

\* {1,2} was requested and, released as {2,1}, holds no reference any more
C28_Witness ==
    /\ callbacks
    /\ Len(filterDimensions) = 1
    /\ Len(promises) = 1
    /\ promises[1].filters = << [arg |-> "a", values |-> <<Num(1), Num(2)>>] >>
    /\ pendingFilters = [a |-> <<Num(1), Num(2)>>]
    /\ refCounts = <<>>

\* the literals a where tree compares with a field, in the order of the tree:
\* those of its eq and in nodes that are reached through nodes of functions
\* other than eq and in
ComparedLiterals(options, field) ==
    LET IsField(e) ==
            e.type = "ref" /\ Len(e.path) \in {1, 2} /\ e.path[Len(e.path)] = field
        Literal(e) == e.type = "val"
        ComparedWith(node) ==
            IF Len(node.args) # 2 THEN <<>>
            ELSE LET l == node.args[1]
                     r == node.args[2]
                 IN  IF node.name = "eq" /\ IsField(l) /\ Literal(r) THEN << r.value >>
                     ELSE IF node.name = "eq" /\ Literal(l) /\ IsField(r)
                     THEN << l.value >>
                     ELSE IF node.name = "in" /\ IsField(l) /\ Literal(r)
                             /\ TypeOf(r.value) = "array"
                     THEN r.value[2]
                     ELSE <<>>
        RECURSIVE Under(_)
        Under(e) ==
            IF e.type # "func" THEN <<>>
            ELSE IF e.name \in {"eq", "in"} THEN ComparedWith(e)
            ELSE LET RECURSIVE each(_)
                     each(args) == IF args = <<>> THEN <<>>
                                   ELSE Under(Head(args)) \o each(Tail(args))
                 IN  each(e.args)
    IN  IF "where" \in DOMAIN options THEN Under(options.where) ELSE <<>>

\* the position at which a key is first seen in a list of values
FirstSeen(values, key) ==
    CHOOSE i \in 1..Len(values) :
        /\ toKey(values[i]) = key
        /\ \A j \in 1..(i - 1) : toKey(values[j]) # key

\* C31: extractFilterValues returns the literals the where tree compares
\* with the field by eq (either order) or in (field left, literal array right)
\* under any nesting of other functions, one per stable key, each the first
\* seen of its key, in first-seen order; without where it returns the empty
\* list; extractMultipleFilterValues holds, in the order of the dimensions,
\* what extractFilterValues returns for each dimension with a match.
C31_ExtractsComparedLiterals ==
    /\ extraction.values # None
       => LET result == extraction.values[1]
              literals == ComparedLiterals(extraction.options, extraction.field)
          IN  /\ { toKey(result[i]) : i \in 1..Len(result) }
                    = { toKey(literals[i]) : i \in 1..Len(literals) }
              /\ \A i \in 1..Len(result) :
                    result[i] = literals[FirstSeen(literals, toKey(result[i]))]
              /\ \A i, j \in 1..Len(result) :
                    i < j => FirstSeen(literals, toKey(result[i]))
                                < FirstSeen(literals, toKey(result[j]))
              /\ "where" \notin DOMAIN extraction.options => result = <<>>
    /\ extraction.extracted # None
       => LET extracted == extraction.extracted[1]
              matched == { i \in 1..Len(filterDimensions) :
                             extractFilterValues(extraction.options,
                                                 filterDimensions[i].filterField)
                                 # <<>> }
          IN  /\ Len(extracted) = Cardinality(matched)
              /\ \A n \in 1..Len(extracted) :
                    \E i \in matched :
                       /\ Cardinality({ j \in matched : j < i }) = n - 1
                       /\ extracted[n].arg = filterDimensions[i].convexArg
                       /\ extracted[n].values
                             = extractFilterValues(extraction.options,
                                                   filterDimensions[i].filterField)

\* 2 and [1, 2] are compared with f under an and under an or; nothing is
\* compared with g, and dimension b is omitted
C31_Witness ==
    /\ extraction.field = "f"
    /\ "where" \in DOMAIN extraction.options
    /\ extraction.options.where =
           Func("or",
                << Func("and",
                        << Func("eq", << Val(Num(2)), Ref(<<"t", "f">>) >>),
                           Func("in", << Ref(<<"f">>),
                                         Val(Arr(<< Num(1), Num(2) >>)) >>) >>),
                   Func("in", << Val(Arr(<< Num(1), Num(2) >>)), Ref(<<"f">>) >>) >>)
    /\ extraction.values = Some(<< Num(2), Num(1) >>)
    /\ extraction.extracted = Some(<< [arg |-> "a", values |-> << Num(2), Num(1) >>] >>)

\* what reconciliation is to do with a record, given what collection.get
\* returns for its key: insert it, update because it is newer, update because
\* the existing record has no timestamp, or nothing
Emission(item, existing) ==
    IF existing = <<>> THEN "insert"
    ELSE IF item.ts # NoTs /\ existing[1].ts # NoTs /\ item.ts > existing[1].ts
    THEN "newer"
    ELSE IF item.ts # NoTs /\ existing[1].ts = NoTs THEN "untimed"
    ELSE "none"

\* the write batch with what is due for the record added
Emit(writes, item, coll) ==
    LET e == Emission(item, HostGet(coll, writes, getKey(item)))
    IN  IF e = "none" THEN writes
        ELSE Append(writes, [type |-> IF e = "insert" THEN "insert" ELSE "update",
                             value |-> item])

RECURSIVE ExpectedWrites(_, _, _)
ExpectedWrites(writes, items, coll) ==
    IF items = <<>> THEN writes
    ELSE ExpectedWrites(Emit(writes, Head(items), coll), Tail(items), coll)

\* the records to be counted as new: inserted or updated as newer, with a
\* timestamp beyond the cursor
RECURSIVE ExpectedNew(_, _, _, _)
ExpectedNew(writes, items, coll, cursor) ==
    IF items = <<>> THEN 0
    ELSE LET item == Head(items)
             e == Emission(item, HostGet(coll, writes, getKey(item)))
         IN  (IF e \in {"insert", "newer"} /\ item.ts # NoTs /\ item.ts > cursor
              THEN 1 ELSE 0)
             + ExpectedNew(Emit(writes, item, coll), Tail(items), coll, cursor)

\* C32: for each record of a delivery reconciliation writes an insert if
\* the key is not in the collection, an update if it is and the incoming
\* timestamp is newer or the existing record has none while the incoming has
\* one, and nothing otherwise; it never writes a delete.
C32_ReconcileTable ==
    [][ deliveries' # deliveries
        => LET items == deliveries'[Len(deliveries')]
               writes == ReconcileItems(
                             [cursor |-> globalCursor, writes |-> <<>>,
                              newItemCount |-> 0],
                             items, collection, globalCursor).writes
           IN  /\ writes = ExpectedWrites(<<>>, items, collection)
               /\ \A i \in 1..Len(writes) :
                     writes[i].type \in {"insert", "update"}
               /\ collection' = HostCommit(collection, writes) ]_vars

\* one delivery updated k1 with a newer version and inserted k2
C32_Witness ==
    /\ Len(deliveries) = 1
    /\ Len(deliveries[1]) = 2
    /\ DOMAIN collection0 = {"k1"}
    /\ collection0["k1"].ts = 1
    /\ deliveries[1][1] = Record("k1", 2, "y")
    /\ getKey(deliveries[1][2]) = "k2"
    /\ collection = [k \in {"k1", "k2"} |->
                        IF k = "k1" THEN deliveries[1][1] ELSE deliveries[1][2]]

\* C33: a delivery adds to the since-subscription counter the number of its
\* records that were inserted, or updated as strictly newer, and whose
\* timestamp is beyond the cursor as it was before the delivery; stale records,
\* records of the overlap window and records without timestamp add nothing.
C33_CountsNewRecords ==
    [][ deliveries' # deliveries
        => LET items == deliveries'[Len(deliveries')]
               total == messagesSinceSubscription
                          + ExpectedNew(<<>>, items, collection, globalCursor)
           IN  IF forcedResubscribes' = forcedResubscribes
               THEN messagesSinceSubscription' = total
               ELSE /\ total >= resubscribeThreshold
                    /\ messagesSinceSubscription' = 0 ]_vars

\* a delivery of two records of which one was counted
C33_Witness ==
    /\ Len(deliveries) = 1
    /\ Len(deliveries[1]) = 2
    /\ forcedResubscribes = 0
    /\ messagesSinceSubscription = 1
    /\ deliveries[1][1].ts # NoTs
    /\ deliveries[1][2].ts # NoTs

\* C34: while a subscription is live something is active: an active set is
\* not empty in filter mode, the global reference count is positive without
\* dimensions.
C34_SubscribedMeansActive ==
    ( currentSubscription # None \/ liveSubs # <<>> )
    => IF Len(filterDimensions) = 0 THEN globalRefCount > 0
       ELSE HasActiveValues(activeDimensions)

\* the subscription of the session was torn down and nothing is active
C34_Witness ==
    /\ callbacks
    /\ tornDown
    /\ forcedResubscribes = 0
    /\ inflight = None
    /\ currentSubscription = None
    /\ liveSubs = <<>>
    /\ refCounts = <<>>
    /\ globalRefCount = 0
    /\ ~HasActiveValues(activeDimensions)

\* C37: in filter mode every value in the arguments of the installed
\* subscription is in the active set of its dimension.
C37_SubscribedValuesActive ==
    Len(filterDimensions) > 0
    => PairsOfSubscription \subseteq PairsOfActive(activeDimensions)

\* 1 and 2 were synced by separate passes; 1 has left the active set and the
\* subscription installed since covers 2 only
C37_Witness ==
    /\ Len(filterDimensions) = 1
    /\ Len(promises) = 2
    /\ \A i \in 1..2 : /\ promises[i].status = "resolved"
                       /\ promises[i].filters = << [arg |-> "a", values |-> <<Num(i)>>] >>
    /\ tornDown
    /\ activeDimensions["a"] = << toKey(Num(2)) >>
    /\ currentSubscription # None
    /\ currentSubscription[1].filters["a"].values = << Num(2) >>

\* C38: during a session every value of a configured dimension held by a
\* composite key with a positive reference count is active or pending.
C38_InterestKept ==
    callbacks
    => \A ck \in DOMAIN refCounts :
          refCounts[ck] > 0
          => \A i \in 1..Len(ck) :
                ck[i].arg \in DimArgs
                => \A k \in SeqToSet(ck[i].values) :
                      <<ck[i].arg, k>> \in PairsOfActive(activeDimensions)
                                           \cup PairsOfFilters(pendingFilters)

\* C39: once cleanup() has run and while nothing has been requested since, the
\* return of a backfill that was awaited when cleanup() ran writes nothing to
\* the collection, signals no ready, leaves the cursor and installs no
\* subscription.
C39_OldSessionInert ==
    [][ ( /\ inflight # None
          /\ inflight[1].stale
          /\ Len(inflight') < Len(inflight)
          /\ refCounts = <<>>
          /\ globalRefCount = 0 )
        => /\ collection' = collection
           /\ readySignals' = readySignals
           /\ globalCursor' = globalCursor
           /\ currentSubscription' = None
           /\ liveSubs' = <<>> ]_vars

\* C40: the end of a processing pass, which reconciles the backfill results and
\* rebuilds the subscription, involves no forced re-subscription by the
\* reconciliation.
C40_OneInstallPerPass ==
    [][ ( Len(inflight') < Len(inflight) /\ forcedResubscribes < MaxForced )
        => forcedResubscribes' = forcedResubscribes ]_vars

\* C35: a result handed to the callback of a subscription that has been
\* unsubscribed and replaced changes neither the live subscription nor the
\* since-subscription counter, and rebuilds no subscription.
C35_StaleResultsIgnored ==
    [][ \A items \in Batches :
           ( StaleSubscriptionDelivers(items) /\ currentSubscription # None )
           => /\ currentSubscription' = currentSubscription
              /\ liveSubs' = liveSubs
              /\ messagesSinceSubscription' = messagesSinceSubscription
              /\ forcedResubscribes' = forcedResubscribes ]_vars

\* C36: in filter mode a loadSubset or unloadSubset that extracts no value
\* leaves the manager as it is (reference counts, pending buffer, active sets,
\* timer, subscription), issues no query, and loadSubset returns a resolved
\* promise.
C36_EmptyExtractionIsNoOp ==
    [][ Len(filterDimensions) > 0
        => /\ LoadSubset(<<>>)
              => /\ UNCHANGED << refCounts, pendingFilters, activeDimensions,
                                 debounceTimer, timerArmed, currentSubscription,
                                 liveSubs, inflight, isProcessing >>
                 /\ Len(promises') = Len(promises) + 1
                 /\ promises'[Len(promises')].status = "resolved"
           /\ UnloadSubset(<<>>)
              => UNCHANGED << refCounts, pendingFilters, activeDimensions,
                              debounceTimer, timerArmed, currentSubscription,
                              liveSubs, inflight, isProcessing, promises >> ]_vars

\* a loadSubset without values of any dimension came in while a combination
\* was referenced and a timer armed
C36_Witness ==
    /\ Len(filterDimensions) > 0
    /\ Len(promises) = 2
    /\ promises[1].status = "pending"
    /\ promises[2] = [status |-> "resolved", filters |-> <<>>]
    /\ timerArmed
    /\ DOMAIN refCounts = { CreateCompositeKey(promises[1].filters) }

\* C29: deep-equal values have equal keys
C29_EqualKeys ==
    codec.keys # None /\ DeepEqual(codec.value, codec.other)
        => codec.keys[1] = codec.keys[2]

\* C30: fromKey(toKey(v)) is deep-equal to v
C30_RoundTrip ==
    codec.restored # None => DeepEqual(codec.restored[1], codec.value)

====
